---- MODULE Spec2Model ----
(***************************************************************************)
(* Bbow: the "big bag of words" of src/src/lib.rs.  A bag is a BTreeMap    *)
(* from word to occurrence count; extend_from_text splits a text at        *)
(* whitespace, trims non-alphabetic code points off both ends of every     *)
(* fragment, keeps the fragments that are words, lowercases those that     *)
(* contain an uppercase code point and counts them.                        *)
(*                                                                         *)
(* A text is a sequence of Unicode code points (integers).  The model      *)
(* works over a sample of code points with one representative of every     *)
(* class the code distinguishes:                                           *)
(*      32  U+0020  SPACE                       White_Space                *)
(*      45  U+002D  HYPHEN-MINUS                punctuation                *)
(*      65  U+0041  LATIN CAPITAL LETTER A      Lu, lowercase U+0061       *)
(*      97  U+0061  LATIN SMALL LETTER A        Ll                         *)
(*     105  U+0069  LATIN SMALL LETTER I        Ll                         *)
(*     304  U+0130  LATIN CAPITAL LETTER I WITH DOT ABOVE                  *)
(*                                              Lu, lowercase U+0069 U+0307*)
(*     453  U+01C5  LATIN CAPITAL LETTER D WITH SMALL LETTER Z WITH CARON  *)
(*                                              Lt, lowercase U+01C6       *)
(*     454  U+01C6  LATIN SMALL LETTER DZ WITH CARON          Ll           *)
(*     775  U+0307  COMBINING DOT ABOVE         Mn, not Alphabetic         *)
(*  119808  U+1D400 MATHEMATICAL BOLD CAPITAL A Lu, no lowercase mapping   *)
(***************************************************************************)
EXTENDS Integers, Sequences, FiniteSets

\* Longest text handed to extend_from_text, in code points.
MaxLen == 3

\* Number of chained extend_from_text calls on one bag.
MaxCalls == 2

\* The code points a caller's text is made of.
Chars == {32, 45, 65, 97, 304, 453, 454, 119808}

\* The texts a caller passes (target: &str).
Texts == UNION {[1..n -> Chars] : n \in 0..MaxLen}

----------------------------------------------------------------------------
(* The standard-library predicates and conversions the code calls, on the  *)
(* sampled code points.                                                    *)

\* char::is_whitespace (used by str::split_whitespace).
is_whitespace(c) == c = 32

\* char::is_alphabetic: the Unicode Alphabetic property.
is_alphabetic(c) == c \in {65, 97, 105, 304, 453, 454, 119808}

\* char::is_uppercase: the Unicode Uppercase property (Lu and
\* Other_Uppercase; the titlecase letter U+01C5 is neither).
is_uppercase(c) == c \in {65, 304, 119808}

\* char::to_lowercase: the code point's lowercase mapping, one or two code
\* points long; a code point without a mapping maps to itself.
char_to_lowercase(c) ==
    CASE c = 65  -> <<97>>
      [] c = 304 -> <<105, 775>>
      [] c = 453 -> <<454>>
      [] OTHER   -> <<c>>

RECURSIVE to_lowercase(_)
\* str::to_lowercase: the lowercase mappings of the code points, in order.
to_lowercase(word) ==
    IF word = <<>> THEN <<>>
    ELSE char_to_lowercase(Head(word)) \o to_lowercase(Tail(word))

RECURSIVE split_from(_, _, _)
\* The fragments of text from position i on; cur is the fragment being read.
split_from(text, i, cur) ==
    IF i > Len(text)
    THEN IF cur = <<>> THEN <<>> ELSE <<cur>>
    ELSE IF is_whitespace(text[i])
         THEN IF cur = <<>>
              THEN split_from(text, i + 1, <<>>)
              ELSE <<cur>> \o split_from(text, i + 1, <<>>)
         ELSE split_from(text, i + 1, Append(cur, text[i]))

RECURSIVE split_from_unflushed(_, _, _)
\* split_from without the fragment that the end of the text closes.
split_from_unflushed(text, i, cur) ==
    IF i > Len(text) THEN <<>>
    ELSE IF is_whitespace(text[i])
         THEN IF cur = <<>>
              THEN split_from_unflushed(text, i + 1, <<>>)
              ELSE <<cur>> \o split_from_unflushed(text, i + 1, <<>>)
         ELSE split_from_unflushed(text, i + 1, Append(cur, text[i]))

\* A split that yields a fragment only when whitespace follows it.
split_whitespace_unflushed(text) == split_from_unflushed(text, 1, <<>>)

\* str::split_whitespace: the maximal runs of non-whitespace code points.
split_whitespace(text) == split_from(text, 1, <<>>)

RECURSIVE trim_start(_)
\* Drop the leading code points that are not alphabetic.
trim_start(word) ==
    IF word # <<>> /\ ~is_alphabetic(Head(word))
    THEN trim_start(Tail(word))
    ELSE word

RECURSIVE trim_end(_)
\* Drop the trailing code points that are not alphabetic.
trim_end(word) ==
    IF word # <<>> /\ ~is_alphabetic(word[Len(word)])
    THEN trim_end(SubSeq(word, 1, Len(word) - 1))
    ELSE word

RECURSIVE strip_everywhere(_)
\* Drop every code point that is not alphabetic, wherever it stands.
strip_everywhere(word) ==
    IF word = <<>> THEN <<>>
    ELSE IF is_alphabetic(Head(word))
         THEN <<Head(word)>> \o strip_everywhere(Tail(word))
         ELSE strip_everywhere(Tail(word))

\* A trim that also removes the internal non-alphabetic code points.
trim_matches_everywhere(word) == strip_everywhere(word)

\* word.trim_matches(|c: char| !c.is_alphabetic())
trim_matches(word) == trim_end(trim_start(word))

RECURSIVE str_lt(_, _)
\* Ord for str: lexicographic by UTF-8 bytes, which is by code point.
str_lt(a, b) ==
    IF b = <<>> THEN FALSE
    ELSE IF a = <<>> THEN TRUE
    ELSE IF Head(a) # Head(b) THEN Head(a) < Head(b)
    ELSE str_lt(Tail(a), Tail(b))

----------------------------------------------------------------------------
(* The program.                                                            *)

is_word(word) ==
    word # <<>> /\ \A i \in 1..Len(word) : is_alphabetic(word[i])

has_uppercase(word) ==
    \E i \in 1..Len(word) : is_uppercase(word[i])

\* The bag: the entries of BTreeMap<Cow<str>, usize> in iteration order,
\* which is ascending key order.  A borrowed and an owned Cow with the same
\* content are the same key.
VARIABLES bag, target, calls

vars == <<bag, target, calls>>

\* Bbow::new(): Self::default(), the empty map.
new == <<>>

\* Where the map holds word: the index of its entry, 0 when absent.
find(map, word) ==
    IF \E i \in 1..Len(map) : map[i].key = word
    THEN CHOOSE i \in 1..Len(map) : map[i].key = word
    ELSE 0

\* An insertion that appends instead of keeping the keys in order.
slot_at_end(map, word) == Len(map) + 1

\* Where a new entry for word goes: before the first key that does not
\* precede it, at the end when every key precedes it.
slot(map, word) ==
    IF \E i \in 1..Len(map) : ~str_lt(map[i].key, word)
    THEN CHOOSE i \in 1..Len(map) :
            /\ ~str_lt(map[i].key, word)
            /\ \A j \in 1..(i - 1) : str_lt(map[j].key, word)
    ELSE Len(map) + 1

\* An entry update that stores 1 instead of adding 1.
entry_add_stores_one(map, word) ==
    LET i == find(map, word) IN
    IF i # 0
    THEN [map EXCEPT ![i].count = 1]
    ELSE LET p == slot(map, word) IN
         SubSeq(map, 1, p - 1) \o <<[key |-> word, count |-> 1]>>
            \o SubSeq(map, p, Len(map))

\* *self.0.entry(word).or_insert(0) += 1
entry_add(map, word) ==
    LET i == find(map, word) IN
    IF i # 0
    THEN [map EXCEPT ![i].count = @ + 1]
    ELSE LET p == slot(map, word) IN
         SubSeq(map, 1, p - 1) \o <<[key |-> word, count |-> 1]>>
            \o SubSeq(map, p, Len(map))

\* The key a fragment that is a word is counted under.
cow(word) ==
    IF has_uppercase(word) THEN to_lowercase(word) ELSE word

\* One iteration of the loop of extend_from_text.
add_fragment(map, fragment) ==
    LET word == trim_matches(fragment) IN
    IF is_word(word) THEN entry_add(map, cow(word)) ELSE map

RECURSIVE extend_loop(_, _)
extend_loop(map, fragments) ==
    IF fragments = <<>> THEN map
    ELSE extend_loop(add_fragment(map, Head(fragments)), Tail(fragments))

\* An extension that counts into a fresh map instead of self.
extend_from_text_fresh(map, text) == extend_loop(new, split_whitespace(text))

extend_from_text(map, text) == extend_loop(map, split_whitespace(text))

\* self.0.get(keyword).cloned().unwrap_or(0)
get(map, keyword) ==
    LET i == find(map, keyword) IN
    IF i = 0 THEN 0 ELSE map[i].count

match_count(map, keyword) ==
    IF ~is_word(keyword) THEN 0 ELSE get(map, keyword)

words(map) == [i \in 1..Len(map) |-> map[i].key]

RECURSIVE count(_)
count(map) ==
    IF map = <<>> THEN 0 ELSE Head(map).count + count(Tail(map))

len(map) == Len(map)

is_empty(map) == map = <<>>

Init ==
    /\ bag = new
    /\ target = <<>>
    /\ calls = 0

\* bag = bag.extend_from_text(t)
ExtendFromText ==
    /\ calls < MaxCalls
    /\ \E t \in Texts :
        /\ bag' = extend_from_text(bag, t)
        /\ target' = t
    /\ calls' = calls + 1

Next == ExtendFromText

Spec == Init /\ [][Next]_vars

----------------------------------------------------------------------------
(* Vocabulary of the properties.                                           *)

\* The keys a bag stores.
KeySet(map) == {map[i].key : i \in 1..Len(map)}

RECURSIVE SumMatchCount(_, _)
\* The sum of match_count over a sequence of words.
SumMatchCount(map, ws) ==
    IF ws = <<>> THEN 0
    ELSE match_count(map, Head(ws)) + SumMatchCount(map, Tail(ws))

\* The words the loop of extend_from_text counts for a text, as keys.
Extracted(text) ==
    LET fr == split_whitespace(text) IN
    {cow(trim_matches(fr[i])) :
        i \in {j \in 1..Len(fr) : is_word(trim_matches(fr[j]))}}

\* How many fragments of a text the loop counts under key k.
Occurrences(text, k) ==
    LET fr == split_whitespace(text) IN
    Cardinality({i \in 1..Len(fr) :
        is_word(trim_matches(fr[i])) /\ cow(trim_matches(fr[i])) = k})

\* A code point equal to its own lowercase mapping.
IsLowercased(c) == char_to_lowercase(c) = <<c>>

\* Two words made of the same letters in whatever case.
CaseVariants(u, w) == to_lowercase(u) = to_lowercase(w)

RECURSIVE SumCounts(_, _)
\* The sum of the counts a bag stores for a set of keys.
SumCounts(map, ks) ==
    IF ks = {} THEN 0
    ELSE LET k == CHOOSE x \in ks : TRUE IN
         get(map, k) + SumCounts(map, ks \ {k})

\* The valid words among the trimmed fragments of a text.
ValidWords(text) ==
    LET fr == split_whitespace(text) IN
    {trim_matches(fr[i]) :
        i \in {j \in 1..Len(fr) : is_word(trim_matches(fr[j]))}}

\* How many fragments of a text are valid words that are case variants of w.
VariantOccurrences(text, w) ==
    LET fr == split_whitespace(text) IN
    Cardinality({i \in 1..Len(fr) :
        is_word(trim_matches(fr[i])) /\ CaseVariants(trim_matches(fr[i]), w)})

\* a precedes b in lexicographic order by code point, stated by the first
\* position where they differ.
LexLess(a, b) ==
    \E p \in 1..Len(b) :
        /\ p <= Len(a) + 1
        /\ \A q \in 1..(p - 1) : a[q] = b[q]
        /\ (p = Len(a) + 1 \/ a[p] < b[p])

\* The whitespace-delimited fragments of a text, as <<first, last>> index
\* pairs: maximal spans without whitespace.
FragmentSpans(text) ==
    {sp \in (1..Len(text)) \X (1..Len(text)) :
        /\ sp[1] <= sp[2]
        /\ \A p \in sp[1]..sp[2] : ~is_whitespace(text[p])
        /\ (sp[1] = 1 \/ is_whitespace(text[sp[1] - 1]))
        /\ (sp[2] = Len(text) \/ is_whitespace(text[sp[2] + 1]))}

\* The spans <<i, j>> of a fragment f that hold all of its alphabetic code
\* points and nothing else: f is non-alphabetic code points, then f[i..j],
\* then non-alphabetic code points.  There is at most one.
CoreSpans(f) ==
    {sp \in (1..Len(f)) \X (1..Len(f)) :
        /\ sp[1] <= sp[2]
        /\ \A p \in 1..Len(f) :
              is_alphabetic(f[p]) <=> (sp[1] <= p /\ p <= sp[2])}

\* A fragment with an alphabetic code point on both sides of a
\* non-alphabetic one.
HasInternalNonAlphabetic(f) ==
    \E a, p, b \in 1..Len(f) :
        a < p /\ p < b /\ is_alphabetic(f[a]) /\ ~is_alphabetic(f[p])
            /\ is_alphabetic(f[b])

\* How many fragments of a text have all their non-alphabetic code points
\* at their ends and, stripped of them and normalized, are k.
BoundaryOccurrences(text, k) ==
    Cardinality({fs \in FragmentSpans(text) :
        LET f == SubSeq(text, fs[1], fs[2]) IN
        \E sp \in CoreSpans(f) : cow(SubSeq(f, sp[1], sp[2])) = k})

\* Every key the fragments of a text with internal non-alphabetic code
\* points could be split or squeezed into.
PartsOfDiscarded(text) ==
    UNION {LET f == SubSeq(text, fs[1], fs[2]) IN
           IF HasInternalNonAlphabetic(f)
           THEN {cow(SubSeq(f, a, b)) : a \in 1..Len(f), b \in 1..Len(f)}
           ELSE {} : fs \in FragmentSpans(text)}

----------------------------------------------------------------------------
(* The properties.                                                         *)

\* C1: after any sequence of extend_from_text calls, count() is the sum of
\* match_count(w) over the words w that words() enumerates, and len() is
\* the number of distinct valid words extracted, as keys, from all the
\* ingested texts (the keys held before a call together with the words the
\* call extracts).
C1_CountIsSumOfMatchCounts ==
    [][/\ count(bag') = SumMatchCount(bag', words(bag'))
       /\ len(bag') = Cardinality(KeySet(bag) \cup Extracted(target'))]_vars

\* C2: from the empty bag, ingesting T1 then T2 gives the same mapping as
\* ingesting T1, a whitespace and T2 as one text, and the same mapping as
\* ingesting T2 then T1.
C2_OrderIndependent ==
    [][calls = 1 =>
        /\ bag' = extend_from_text(new, target \o <<32>> \o target')
        /\ bag' = extend_from_text(extend_from_text(new, target'), target)]_vars

\* Two texts with words of their own were ingested one after the other.
C2_Witness ==
    /\ calls = 2
    /\ target = <<453, 32, 65>>
    /\ len(bag) = 3
    /\ count(bag) = 4

\* C3: the valid words of an ingested text that are case variants of the
\* same letters are all indexed under one key, and that key's count is the
\* sum of the occurrences of all the variants (those counted before the
\* call and those of the call).
C3_CaseVariantsShareOneKey ==
    [][\A w \in ValidWords(target') :
        LET ks == {k \in KeySet(bag') : CaseVariants(k, w)}
            before == {k \in KeySet(bag) : CaseVariants(k, w)}
        IN /\ Cardinality(ks) = 1
           /\ SumCounts(bag', ks)
                = SumCounts(bag, before) + VariantOccurrences(target', w)]_vars

C5_MatchCountStrict ==
    \A kw \in Texts \cup KeySet(bag) :
        /\ ~is_word(kw) => match_count(bag, kw) = 0
        /\ has_uppercase(kw) => match_count(bag, kw) = 0
        /\ match_count(bag, kw) # 0 =>
              /\ is_word(kw)
              /\ \A i \in 1..Len(kw) : IsLowercased(kw[i])
              /\ kw \in KeySet(bag)
              /\ match_count(bag, kw) = get(bag, kw)

\* C6: every stored key is fully lowercased: none of its code points
\* differs from its own lowercase mapping.
C6_KeysLowercased ==
    \A k \in KeySet(bag) : \A i \in 1..Len(k) : IsLowercased(k[i])

\* C7: every stored key is non-empty and all its code points are
\* alphabetic, the keys produced by lowercasing included.
C7_KeysAlphabetic ==
    \A k \in KeySet(bag) :
        k # <<>> /\ \A i \in 1..Len(k) : is_alphabetic(k[i])

\* C8: words() enumerates every stored key exactly once, in strictly
\* ascending lexicographic order by code point, len() items in all.
C8_WordsSortedAndComplete ==
    LET ws == words(bag) IN
    /\ Len(ws) = len(bag)
    /\ \A i \in 1..(Len(ws) - 1) : LexLess(ws[i], ws[i + 1])
    /\ \A i, j \in 1..Len(ws) : ws[i] = ws[j] => i = j
    /\ \A i \in 1..Len(ws) : get(bag, ws[i]) >= 1

\* The second call put a key in front of the keys of the first.
C8_Witness ==
    /\ calls = 2
    /\ target = <<97>>
    /\ len(bag) = 3
    /\ words(bag)[1] = <<97>>
    /\ get(bag, <<97>>) = 1

\* C9: ingesting a text twice into a fresh bag gives the keys of ingesting
\* it once, each with double the count.
C9_TwiceDoubles ==
    [][(calls = 1 /\ target' = target) =>
        /\ KeySet(bag') = KeySet(bag)
        /\ \A k \in KeySet(bag) : get(bag', k) = 2 * get(bag, k)]_vars

\* A text with a repeated word and another word was ingested twice.
C9_Witness ==
    /\ calls = 2
    /\ target = <<65, 32, 97>>
    /\ bag = <<[key |-> <<97>>, count |-> 4]>>

\* C10: the mapping starts empty and only grows: a call removes no key and
\* lowers no count, adds to every key one per occurrence of it in the text
\* (a new key starts at its number of occurrences), and so len() and
\* count() never decrease.
C10_GrowsMonotonically ==
    /\ is_empty(bag)
    /\ [][/\ KeySet(bag) \subseteq KeySet(bag')
          /\ \A k \in KeySet(bag') :
                /\ get(bag', k) >= get(bag, k)
                /\ get(bag', k) = get(bag, k) + Occurrences(target', k)
          /\ len(bag') >= len(bag)
          /\ count(bag') >= count(bag)]_vars

\* A call raised the count of an old key and inserted a new one.
C10_Witness ==
    /\ calls = 2
    /\ target = <<97, 32, 304>>
    /\ bag = <<[key |-> <<97>>, count |-> 3],
               [key |-> <<105, 775>>, count |-> 1]>>

====
